---- MODULE Spec2Model ----
(***************************************************************************)
(* A model of src/main.py of uk-coronavirus-data-alerts: one run of        *)
(* lambda_handler (compare_available_metrics, then                         *)
(* check_last_two_weeks_of_metrics) with its collaborators (the metric     *)
(* definitions endpoint, the S3 baseline object, the CSV endpoint, the     *)
(* population spreadsheet and SES), each of which may raise.               *)
(*                                                                         *)
(* Numbers.  The program computes with numpy/Python floats.  The model     *)
(* computes with exact rationals in lowest terms, plus the two special     *)
(* floats the code produces (nan, +inf) and Python's None.  float64        *)
(* representation error is not modelled.                                   *)
(***************************************************************************)
EXTENDS Integers, Sequences, FiniteSets, TLC

(***************************************************************************)
(* Bounds of the model (inputs the environment may supply).                *)
(***************************************************************************)
\* Dates are day numbers; the CSV holds rows on the days 0, DateStep, ... <= MaxDate.
MaxDate == 14
DateStep == 7
\* A CSV of the evaluation specification holds at most MaxRows rows.
MaxRows == 4

Areas == <<"A", "B">>
\* Daily metric values.  2001 -> 3002 is a rise of 50.02...%, which rounds to 50.0.
Values == {0, 20, 2001, 3002}
\* areaCode of an area's rows; AltCode is a second code seen in an ambiguous CSV.
BaseCode == [a \in {"A", "B"} |-> IF a = "A" THEN "E1" ELSE "E2"]
AltCode == "E9"
\* Metric identifiers and their (opaque) metadata in api_variables.json.
Ids == {"m1", "m2"}
Meta == {"x", "y"}

(***************************************************************************)
(* Program constants.                                                      *)
(***************************************************************************)
VerifiedLagDays == 4
SixDays == 6
SevenDays == 7
ThirteenDays == 13
Per == 100000
PercentageChangeThreshold == 50
NewCasesPer100000Threshold == 50
HospitalCasesThreshold == 30
RoundDigitsScale == 10

(***************************************************************************)
(* Float values: rationals n/d in lowest terms (d > 0), nan, +inf, None.   *)
(***************************************************************************)
RECURSIVE GCD(_, _)
GCD(a, b) == IF b = 0 THEN a ELSE GCD(b, a % b)

Abs(n) == IF n < 0 THEN 0 - n ELSE n

Num(n, d) ==
    LET g == GCD(Abs(n), d)
    IN  [k |-> "num", n |-> n \div g, d |-> d \div g]

FInt(n) == Num(n, 1)
NaN == [k |-> "nan", n |-> 0, d |-> 1]
Inf == [k |-> "inf", n |-> 0, d |-> 1]
None == [k |-> "None", n |-> 0, d |-> 1]

IsNum(x) == x.k = "num"

\* x == 0 in Python: False for nan and inf.
IsZero(x) == IsNum(x) /\ x.n = 0

\* a - b, a / b (b nonzero), a * m for floats; nan propagates.
FSub(a, b) ==
    IF IsNum(a) /\ IsNum(b) THEN Num(a.n * b.d - b.n * a.d, a.d * b.d) ELSE NaN

FDiv(a, b) ==
    IF IsNum(a) /\ IsNum(b)
    THEN IF b.n > 0 THEN Num(a.n * b.d, a.d * b.n)
         ELSE Num(0 - a.n * b.d, a.d * (0 - b.n))
    ELSE NaN

FMulInt(a, m) == IF IsNum(a) THEN Num(a.n * m, a.d) ELSE NaN

\* Series.gt(threshold): False for nan and for None, True for +inf.
Gt(x, threshold) ==
    \/ x.k = "inf"
    \/ IsNum(x) /\ x.n > threshold * x.d

\* x > y on floats (used to order rows): nan compares False.
FGt(x, y) ==
    \/ x.k = "inf" /\ IsNum(y)
    \/ IsNum(x) /\ IsNum(y) /\ x.n * y.d > y.n * x.d

\* round(x, 1): to the nearest tenth, ties to even; nan and inf are kept.
Round1(x) ==
    IF ~IsNum(x) THEN x
    ELSE LET t == Num(x.n * RoundDigitsScale, x.d)
             q == (2 * t.n + t.d) \div (2 * t.d)
             tie == (2 * t.n + t.d) % (2 * t.d) = 0
             r == IF tie /\ q % 2 = 1 THEN q - 1 ELSE q
         IN  Num(r, RoundDigitsScale)

(***************************************************************************)
(* pandas helpers.  A DataFrame of the CSV is a sequence of rows           *)
(* [areaName, areaCode, date, value].                                      *)
(***************************************************************************)
RECURSIVE SumSeq(_)
SumSeq(s) == IF s = << >> THEN 0 ELSE Head(s) + SumSeq(Tail(s))

\* Series.sum() is 0 on an empty Series; Series.mean() is nan on an empty Series.
Aggregate(values, aggregation_function) ==
    IF aggregation_function = "sum" THEN FInt(SumSeq(values))
    ELSE IF Len(values) = 0 THEN NaN
    ELSE Num(SumSeq(values), Len(values))

\* Series.unique(): the distinct values in order of first appearance.
RECURSIVE Unique(_)
Unique(s) ==
    IF s = << >> THEN << >>
    ELSE LET init == Unique(SubSeq(s, 1, Len(s) - 1))
             last == s[Len(s)]
         IN  IF \E i \in 1..Len(init) : init[i] = last THEN init
             ELSE Append(init, last)

Column(df, name) == [i \in 1..Len(df) |-> df[i][name]]

\* metric_df['date'].max()
MaxDateOf(metric_df) ==
    CHOOSE m \in {metric_df[i].date : i \in 1..Len(metric_df)} :
        \A i \in 1..Len(metric_df) : metric_df[i].date <= m

(***************************************************************************)
(* Pure functions of main.py.                                              *)
(***************************************************************************)
\* populations_df is a function from area codes to "All ages"; a missing key
\* (KeyError, caught) makes population_for_area return None.
population_for_area(populations_df, area_name, area_code) ==
    IF area_code \in DOMAIN populations_df
    THEN FInt(populations_df[area_code])
    ELSE None

AreaCodes(metric_df, area_name) ==
    Unique(Column(SelectSeq(metric_df, LAMBDA r : r.areaName = area_name), "areaCode"))

\* area_code_for_area raises unless the area has exactly one area code.
AreaCodeRaises(metric_df, area_name) == Len(AreaCodes(metric_df, area_name)) # 1

area_code_for_area(metric_df, area_name) == AreaCodes(metric_df, area_name)[1]

\* A variant that falls back to the raw case count when the population is unknown.
get_cases_per_100000_RawCases(cases, populations_df, metric_df, area_name) ==
    LET area_code == area_code_for_area(metric_df, area_name)
        area_population == population_for_area(populations_df, area_name, area_code)
    IN  IF area_population = None THEN cases
        ELSE FMulInt(FDiv(cases, area_population), Per)

\* (cases / None) raises TypeError, which is caught: the function returns None.
get_cases_per_100000(cases, populations_df, metric_df, area_name) ==
    LET area_code == area_code_for_area(metric_df, area_name)
        area_population == population_for_area(populations_df, area_name, area_code)
    IN  IF area_population = None THEN None
        ELSE FMulInt(FDiv(cases, area_population), Per)

dates_from_upper_bound(upper_bound) ==
    [upper_bound |-> upper_bound,
     six_days_before |-> upper_bound - SixDays,
     seven_days_before |-> upper_bound - SevenDays,
     thirteen_days_before |-> upper_bound - ThirteenDays]

\* The labels are strings "<metric>-<dd-mm-YYYY>-to-<dd-mm-YYYY>"; the model keeps
\* their parts: the metric name and the two dates.  A fixed column name has no dates.
Label(text, dates) == [text |-> text, dates |-> dates]

date_dependent_column_names(metric_name, dates) ==
    [week_before |->
         Label(metric_name, <<dates.thirteen_days_before, dates.seven_days_before>>),
     last_week |->
         Label(metric_name, <<dates.six_days_before, dates.upper_bound>>)]

UpperBound(max_report_date, email_type) ==
    IF email_type = "VERIFIED" THEN max_report_date - VerifiedLagDays
    ELSE max_report_date

\* A variant whose upper bound is exclusive (lt for le).
Between_ExclusiveUpper(area_data, lo, hi) ==
    SelectSeq(area_data, LAMBDA r : r.date >= lo /\ r.date < hi)

\* area_data[area_data.date.ge(lo) & area_data.date.le(hi)]
Between(area_data, lo, hi) ==
    SelectSeq(area_data, LAMBDA r : r.date >= lo /\ r.date <= hi)

\* A variant that divides by the current aggregate.
PercentageChange_DividesByCurrent(week_before, last_week) ==
    IF IsZero(week_before) /\ IsZero(last_week) THEN FInt(0)
    ELSE IF IsZero(week_before) THEN Inf
    ELSE IF IsZero(last_week) THEN Inf
    ELSE FMulInt(FDiv(FSub(last_week, week_before), last_week), 100)

PercentageChange(week_before, last_week) ==
    IF IsZero(week_before) /\ IsZero(last_week) THEN FInt(0)
    ELSE IF IsZero(week_before) THEN Inf
    ELSE FMulInt(FDiv(FSub(last_week, week_before), week_before), 100)

get_percentage_change(area_name, metric_name, metric_df, aggregation_function, email_type) ==
    LET area_data == SelectSeq(metric_df, LAMBDA r : r.areaName = area_name)
        max_report_date == MaxDateOf(metric_df)
        upper_bound == UpperBound(max_report_date, email_type)
        dates == dates_from_upper_bound(upper_bound)
        area_data_last_week ==
            Between(area_data, dates.six_days_before, dates.upper_bound)
        area_data_week_before_last ==
            Between(area_data, dates.thirteen_days_before, dates.seven_days_before)
        aggregation_output_last_week ==
            Aggregate(Column(area_data_last_week, "value"), aggregation_function)
        aggregation_output_week_before ==
            Aggregate(Column(area_data_week_before_last, "value"), aggregation_function)
    IN  [aggregation_output_week_before |-> aggregation_output_week_before,
         aggregation_output_last_week |-> aggregation_output_last_week,
         percentage_change |->
             PercentageChange(aggregation_output_week_before, aggregation_output_last_week),
         date_dependent_column_names |-> date_dependent_column_names(metric_name, dates)]

\* One iteration of the loop of percentage_changes: the row appended to ret.
\* A row is a tuple; its columns are named by ColumnNames.
ResultRow(area_name, stats, metric_name, populations_df, metric_df) ==
    LET row == <<area_name,
                 stats.aggregation_output_week_before,
                 stats.aggregation_output_last_week,
                 Round1(stats.percentage_change)>>
    IN  IF metric_name = "newCasesBySpecimenDate"
        THEN LET per_100000_stats ==
                     get_cases_per_100000(stats.aggregation_output_last_week,
                                          populations_df, metric_df, area_name)
             IN  Append(row, IF per_100000_stats # None
                             THEN Round1(per_100000_stats) ELSE None)
        ELSE row

ColumnNames(stats, metric_name) ==
    IF metric_name = "newCasesBySpecimenDate"
    THEN <<Label("areaName", << >>),
           stats.date_dependent_column_names.week_before,
           stats.date_dependent_column_names.last_week,
           Label("percentageChange", << >>),
           Label("lastSevenDaysPer100000", << >>)>>
    ELSE <<Label("areaName", << >>),
           stats.date_dependent_column_names.week_before,
           stats.date_dependent_column_names.last_week,
           Label("percentageChange", << >>)>>

\* A result DataFrame is [columns, rows]; df.<name> reads the column of that name.
ColumnIndex(df, name) ==
    CHOOSE i \in 1..Len(df.columns) : df.columns[i] = Label(name, << >>)

\* A variant that reads the second column (the prior week) for hospital metrics.
AboveThresholds_SecondColumn(df, row, metric_name) ==
    IF metric_name = "newCasesBySpecimenDate"
    THEN /\ Gt(row[ColumnIndex(df, "percentageChange")], PercentageChangeThreshold)
         /\ Gt(row[ColumnIndex(df, "lastSevenDaysPer100000")], NewCasesPer100000Threshold)
    ELSE /\ Gt(row[ColumnIndex(df, "percentageChange")], PercentageChangeThreshold)
         /\ Gt(row[2], HospitalCasesThreshold)

\* The boolean mask of get_areas_above_thresholds for one row.
AboveThresholds(df, row, metric_name) ==
    IF metric_name = "newCasesBySpecimenDate"
    THEN /\ Gt(row[ColumnIndex(df, "percentageChange")], PercentageChangeThreshold)
         /\ Gt(row[ColumnIndex(df, "lastSevenDaysPer100000")], NewCasesPer100000Threshold)
    ELSE /\ Gt(row[ColumnIndex(df, "percentageChange")], PercentageChangeThreshold)
         \* df[df.columns[2]]: the third column
         /\ Gt(row[3], HospitalCasesThreshold)

Filtered(df, metric_name) ==
    SelectSeq(df.rows, LAMBDA row : AboveThresholds(df, row, metric_name))

\* sort_values("percentageChange", ascending=False) with the default quicksort,
\* which is not stable: any descending arrangement of the rows is a possible result.
IsSortedDescending(df, rows) ==
    \A i \in 1..Len(rows) : \A j \in 1..Len(rows) :
        i < j => ~FGt(rows[j][ColumnIndex(df, "percentageChange")],
                      rows[i][ColumnIndex(df, "percentageChange")])

Perms(n) ==
    {p \in [1..n -> 1..n] : \A i \in 1..n : \E j \in 1..n : p[j] = i}

SortedResults(df, rows) ==
    {[i \in 1..Len(rows) |-> rows[p[i]]] : p \in
        {q \in Perms(Len(rows)) :
            IsSortedDescending(df, [i \in 1..Len(rows) |-> rows[q[i]]])}}

(***************************************************************************)
(* Inputs the collaborators may return.                                    *)
(***************************************************************************)
Row(area, code, date, value) ==
    [areaName |-> area, areaCode |-> code, date |-> date, value |-> value]

NDates == (MaxDate \div DateStep) + 1

\* The cells (area, date) of a CSV, newest date first.
CellSeq ==
    [k \in 1..(Len(Areas) * NDates) |->
        [area |-> Areas[((k - 1) % Len(Areas)) + 1],
         date |-> (NDates - 1 - ((k - 1) \div Len(Areas))) * DateStep]]

\* The CSV with one row per chosen cell; in an ambiguous CSV the oldest rows of
\* area "A" carry a second area code.
Csv(cells, val, ambiguous) ==
    LET chosen == SelectSeq(CellSeq, LAMBDA c : c \in cells)
    IN  [i \in 1..Len(chosen) |->
            Row(chosen[i].area,
                IF ambiguous /\ chosen[i].area = "A" /\ chosen[i].date = 0
                THEN AltCode ELSE BaseCode[chosen[i].area],
                chosen[i].date,
                val[chosen[i]])]

CellSet == {CellSeq[k] : k \in 1..Len(CellSeq)}

EvalCsvs ==
    UNION {{Csv(cells, val, amb) : val \in [cells -> Values], amb \in BOOLEAN} :
           cells \in {c \in SUBSET CellSet : Cardinality(c) <= MaxRows}}

\* The CSVs of the run specification: no row, one area rising from 20 to 3002
\* between the two newest dates, the same with an ambiguous area code, and a
\* flat second area beside it.
RunCsvs ==
    LET new == (NDates - 1) * DateStep
        old == (NDates - 2) * DateStep
    IN  {<< >>,
         <<Row("A", "E1", new, 3002), Row("A", "E1", old, 20)>>,
         <<Row("A", "E1", new, 3002), Row("A", AltCode, old, 20)>>,
         <<Row("A", "E1", new, 3002), Row("B", "E2", new, 20),
           Row("A", "E1", old, 20), Row("B", "E2", old, 20)>>}

PopulationTables ==
    {[c \in {"E1", "E2"} |-> 1000000], [c \in {"E1"} |-> 1000000]}

\* api_variables.json: a mapping from metric identifier to metadata.
Dicts == UNION {[keys -> Meta] : keys \in SUBSET Ids}

EmptyDict == [i \in {} |-> "x"]
EmptyTable == [c \in {} |-> 0]
NoDf == [columns |-> << >>, rows |-> << >>]

\* check_last_two_weeks_of_metrics evaluates these two, in this order.
Pairs ==
    <<[area_type |-> "ltla", metric_name |-> "newCasesBySpecimenDate",
       aggregation_function |-> "sum"],
      [area_type |-> "nhsTrust", metric_name |-> "hospitalCases",
       aggregation_function |-> "mean"]>>

(***************************************************************************)
(* State.                                                                  *)
(***************************************************************************)
VARIABLES
    EMAIL_TYPE,              \* "VERIFIED" or "UNVERIFIED"
    NOTIFY_EMAILS,           \* the configured recipients
    s3_object,               \* the persisted baseline: [exists, body]
    pc,                      \* the statement the run is at
    exception,               \* the call that raised out of lambda_handler, or "none"
    calls,                   \* the collaborator calls made so far, in order
    current,                 \* compare_available_metrics: current
    previous,                \* compare_available_metrics: previous
    alerts,                  \* the calls of send_notification_email: [subject, body]
    ses_sent,                \* the messages SES accepted
    all_data,                \* check_last_two_weeks_of_metrics: all_data
    pair,                    \* the index in Pairs of the pair being evaluated
    metric_df,               \* percentage_changes: metric_df
    populations_df,          \* percentage_changes: ltla_populations_df
    area_index,              \* percentage_changes: the loop's position in area_names
    area_name,               \* percentage_changes: the loop variable
    percentage_change_stats, \* percentage_changes: the last get_percentage_change result
    ret,                     \* percentage_changes: ret
    column_names,            \* percentage_changes: column_names
    df                       \* get_areas_above_thresholds: df

vars == <<EMAIL_TYPE, NOTIFY_EMAILS, s3_object, pc, exception, calls, current,
          previous, alerts, ses_sent, all_data, pair, metric_df, populations_df,
          area_index, area_name, percentage_change_stats, ret, column_names, df>>

config == <<EMAIL_TYPE, NOTIFY_EMAILS>>
compare_locals == <<current, previous>>
eval_locals == <<metric_df, populations_df, area_index, area_name,
                 percentage_change_stats, ret, column_names, df>>

metric_name == Pairs[pair].metric_name
aggregation_function == Pairs[pair].aggregation_function
area_names == Unique(Column(metric_df, "areaName"))

InitLocals ==
    /\ exception = "none"
    /\ calls = << >>
    /\ current = EmptyDict
    /\ previous = EmptyDict
    /\ alerts = << >>
    /\ ses_sent = << >>
    /\ all_data = << >>
    /\ metric_df = << >>
    /\ populations_df = EmptyTable
    /\ area_index = 0
    /\ area_name = ""
    /\ percentage_change_stats = << >>
    /\ ret = << >>
    /\ column_names = << >>
    /\ df = NoDf

\* Module load (lines 14-34): the configuration is read from the environment;
\* the baseline object may or may not exist in the bucket.
Init ==
    /\ EMAIL_TYPE \in {"VERIFIED", "UNVERIFIED"}
    /\ NOTIFY_EMAILS \in {<< >>, <<"desk@example.com">>}
    /\ s3_object \in {[exists |-> FALSE, body |-> EmptyDict]}
                     \cup {[exists |-> TRUE, body |-> d] : d \in Dicts}
    /\ pc = "lambda_handler"
    /\ pair = 1
    /\ InitLocals

(***************************************************************************)
(* Actions.                                                                *)
(***************************************************************************)
Call(name, arg, ok) == [call |-> name, arg |-> arg, ok |-> ok]

Raise(site) ==
    /\ pc' = "raised"
    /\ exception' = site

\* send_notification_email (lines 245-269), continuing at next_pc.  With no
\* recipient configured the message is only printed; otherwise SES is called and
\* either accepts the message or raises.
send_notification_email(subject, body, next_pc) ==
    /\ alerts' = Append(alerts, [subject |-> subject, body |-> body])
    /\ \/ /\ Len(NOTIFY_EMAILS) = 0
          /\ calls' = Append(calls, Call("send_notification_email", body.text, TRUE))
          /\ pc' = next_pc
          /\ UNCHANGED <<ses_sent, exception>>
       \/ /\ Len(NOTIFY_EMAILS) # 0
          /\ calls' = calls \o <<Call("send_notification_email", body.text, TRUE),
                                 Call("send_email", body.text, TRUE)>>
          /\ ses_sent' = Append(ses_sent, [subject |-> subject, body |-> body])
          /\ pc' = next_pc
          /\ UNCHANGED exception
       \/ /\ Len(NOTIFY_EMAILS) # 0
          /\ calls' = calls \o <<Call("send_notification_email", body.text, TRUE),
                                 Call("send_email", body.text, FALSE)>>
          /\ Raise("send_notification_email")
          /\ UNCHANGED ses_sent

\* A variant that enters check_last_two_weeks_of_metrics first.
LambdaHandler_CheckFirst ==
    /\ pc = "lambda_handler"
    /\ pc' = "read_csv"
    /\ UNCHANGED <<config, s3_object, exception, calls, compare_locals, alerts,
                   ses_sent, all_data, pair, eval_locals>>

\* lambda_handler (line 336): enter compare_available_metrics.
LambdaHandler ==
    /\ pc = "lambda_handler"
    /\ pc' = "get_current_metric_definitions"
    /\ UNCHANGED <<config, s3_object, exception, calls, compare_locals, alerts,
                   ses_sent, all_data, pair, eval_locals>>

\* Lines 273-274.
GetCurrentMetricDefinitions ==
    /\ pc = "get_current_metric_definitions"
    /\ \E d \in Dicts : current' = d
    /\ previous' = EmptyDict
    /\ calls' = Append(calls, Call("get_current_metric_definitions", "", TRUE))
    /\ pc' = "get_previous_metric_definitions"
    /\ UNCHANGED <<config, s3_object, exception, alerts, ses_sent, all_data, pair,
                   eval_locals>>

\* Lines 276-280: a failed read of the baseline is caught and previous stays {}.
GetPreviousMetricDefinitions ==
    /\ pc = "get_previous_metric_definitions"
    /\ \/ /\ s3_object.exists
          /\ previous' = s3_object.body
          /\ calls' = Append(calls, Call("get_object", "", TRUE))
       \/ /\ previous' = previous
          /\ calls' = Append(calls, Call("get_object", "", FALSE))
    /\ pc' = "new_metric_names"
    /\ UNCHANGED <<config, s3_object, exception, current, alerts, ses_sent,
                   all_data, pair, eval_locals>>

\* A variant with the operands of the difference exchanged.
new_metric_names_Removed == DOMAIN previous \ DOMAIN current

\* Line 282.
new_metric_names == DOMAIN current \ DOMAIN previous

NewMetricsSubject == "[UK Coronavirus Data Alert] New metrics available"

NewMetricsBody(names) ==
    [text |-> "New metrics available:", email_type_text |-> "",
     new_metrics_list |-> names, to_alert |-> << >>]

\* Lines 282-300.
NotifyNewMetrics ==
    /\ pc = "new_metric_names"
    /\ IF Cardinality(new_metric_names) > 0
       THEN send_notification_email(NewMetricsSubject,
                                    NewMetricsBody(new_metric_names),
                                    "save_metric_definitions")
       ELSE /\ pc' = "save_metric_definitions"
            /\ UNCHANGED <<alerts, ses_sent, calls, exception>>
    /\ UNCHANGED <<config, s3_object, compare_locals, all_data, pair, eval_locals>>

\* Line 302, then lambda_handler line 337 enters check_last_two_weeks_of_metrics.
SaveMetricDefinitions ==
    /\ pc = "save_metric_definitions"
    /\ s3_object' = [exists |-> TRUE, body |-> current]
    /\ calls' = Append(calls, Call("put_object", "", TRUE))
    /\ pc' = "read_csv"
    /\ UNCHANGED <<config, exception, compare_locals, alerts, ses_sent, all_data,
                   pair, eval_locals>>

\* What a logged call names: the area type for the downloads of an evaluation.
CallArg ==
    IF pc \in {"read_csv", "get_ltla_populations"} THEN Pairs[pair].area_type ELSE ""

\* requests.get, put_object, pd.read_csv and the population download raise on a
\* failed transfer; nothing catches them.
CollaboratorRaises ==
    /\ pc \in {"get_current_metric_definitions", "save_metric_definitions",
               "read_csv", "get_ltla_populations"}
    /\ calls' = Append(calls, Call(pc, CallArg, FALSE))
    /\ Raise(pc)
    /\ UNCHANGED <<config, s3_object, compare_locals, alerts, ses_sent, all_data,
                   pair, eval_locals>>

\* percentage_changes, lines 154-156, on a CSV of the given family.
ReadCsvFrom(family) ==
    /\ pc = "read_csv"
    /\ \E csv \in family : metric_df' = csv
    /\ calls' = Append(calls, Call("read_csv", CallArg, TRUE))
    /\ ret' = << >>
    /\ pc' = "get_ltla_populations"
    /\ UNCHANGED <<config, s3_object, exception, compare_locals, alerts, ses_sent,
                   all_data, pair, populations_df, area_index, area_name,
                   percentage_change_stats, column_names, df>>

ReadCsv == ReadCsvFrom(RunCsvs)

EvalReadCsv == ReadCsvFrom(EvalCsvs)

\* Line 160.
GetLtlaPopulations ==
    /\ pc = "get_ltla_populations"
    /\ \E t \in PopulationTables : populations_df' = t
    /\ calls' = Append(calls, Call("get_ltla_populations", CallArg, TRUE))
    /\ area_index' = 1
    /\ pc' = "for_area_name"
    /\ UNCHANGED <<config, s3_object, exception, compare_locals, alerts, ses_sent,
                   all_data, pair, metric_df, area_name, percentage_change_stats,
                   ret, column_names, df>>

\* One iteration of the loop, lines 162-207.  area_code_for_area raises out of
\* the run when the area has several area codes.
ForAreaName ==
    /\ pc = "for_area_name"
    /\ area_index <= Len(area_names)
    /\ LET name == area_names[area_index]
           stats == get_percentage_change(name, metric_name, metric_df,
                                          aggregation_function, EMAIL_TYPE)
       IN  /\ area_name' = name
           /\ percentage_change_stats' = <<stats>>
           /\ IF /\ metric_name = "newCasesBySpecimenDate"
                 /\ AreaCodeRaises(metric_df, name)
              THEN /\ Raise("area_code_for_area")
                   /\ UNCHANGED <<ret, column_names, area_index>>
              ELSE /\ ret' = Append(ret, ResultRow(name, stats, metric_name,
                                                   populations_df, metric_df))
                   /\ column_names' = ColumnNames(stats, metric_name)
                   /\ area_index' = area_index + 1
                   /\ UNCHANGED <<pc, exception>>
    /\ UNCHANGED <<config, s3_object, calls, compare_locals, alerts, ses_sent,
                   all_data, pair, metric_df, populations_df, df>>

\* Line 208: ret_df is bound by the loop body only, so a CSV without rows raises
\* UnboundLocalError.
PercentageChangesReturn ==
    /\ pc = "for_area_name"
    /\ area_index > Len(area_names)
    /\ IF Len(area_names) = 0
       THEN /\ Raise("UnboundLocalError")
            /\ UNCHANGED df
       ELSE /\ df' = [columns |-> column_names, rows |-> ret]
            /\ pc' = "threshold_filter"
            /\ UNCHANGED exception
    /\ UNCHANGED <<config, s3_object, calls, compare_locals, alerts, ses_sent,
                   all_data, pair, metric_df, populations_df, area_index, area_name,
                   percentage_change_stats, ret, column_names>>

\* get_areas_above_thresholds, lines 227-242.
GetAreasAboveThresholds ==
    /\ pc = "threshold_filter"
    /\ \E rows \in SortedResults(df, Filtered(df, metric_name)) :
           df' = [df EXCEPT !.rows = rows]
    /\ pc' = "return_get_areas_above_thresholds"
    /\ UNCHANGED <<config, s3_object, exception, calls, compare_locals, alerts,
                   ses_sent, all_data, pair, metric_df, populations_df, area_index,
                   area_name, percentage_change_stats, ret, column_names>>

\* check_last_two_weeks_of_metrics, lines 307-310: the result joins all_data and
\* the next pair is evaluated; the callee's locals are gone.
CollectAllData ==
    /\ pc = "return_get_areas_above_thresholds"
    /\ all_data' = Append(all_data, df)
    /\ IF pair < Len(Pairs)
       THEN pair' = pair + 1 /\ pc' = "read_csv"
       ELSE pair' = pair /\ pc' = "to_alert"
    /\ metric_df' = << >>
    /\ populations_df' = EmptyTable
    /\ area_index' = 0
    /\ area_name' = ""
    /\ percentage_change_stats' = << >>
    /\ ret' = << >>
    /\ column_names' = << >>
    /\ df' = NoDf
    /\ UNCHANGED <<config, s3_object, exception, calls, compare_locals, alerts,
                   ses_sent>>

to_alert == SelectSeq(all_data, LAMBDA d : Len(d.rows) > 0)

ThresholdSubject ==
    IF EMAIL_TYPE = "VERIFIED"
    THEN "[UK Coronavirus Data Alert] New metrics available"
    ELSE "[UK Coronavirus Data Alert] New metrics available. NOT FOR PUBLISH - most recent, unverified metrics"

ThresholdBody ==
    [text |-> "Some metrics have exceeded the change threshold week on week:",
     email_type_text |-> EMAIL_TYPE,
     new_metrics_list |-> {}, to_alert |-> to_alert]

\* Lines 312-332.
NotifyThresholds ==
    /\ pc = "to_alert"
    /\ IF Len(to_alert) > 0
       THEN send_notification_email(ThresholdSubject, ThresholdBody, "done")
       ELSE /\ pc' = "done"
            /\ UNCHANGED <<alerts, ses_sent, calls, exception>>
    /\ UNCHANGED <<config, s3_object, compare_locals, all_data, pair, eval_locals>>

Next ==
    \/ LambdaHandler
    \/ GetCurrentMetricDefinitions
    \/ GetPreviousMetricDefinitions
    \/ NotifyNewMetrics
    \/ SaveMetricDefinitions
    \/ CollaboratorRaises
    \/ ReadCsv
    \/ GetLtlaPopulations
    \/ ForAreaName
    \/ PercentageChangesReturn
    \/ GetAreasAboveThresholds
    \/ CollectAllData
    \/ NotifyThresholds

\* One run of lambda_handler.
Spec == Init /\ [][Next]_vars

\* One call of get_areas_above_thresholds for a configured pair, on every CSV of
\* at most MaxRows rows.
InitEval ==
    /\ EMAIL_TYPE \in {"VERIFIED", "UNVERIFIED"}
    /\ NOTIFY_EMAILS = << >>
    /\ s3_object = [exists |-> FALSE, body |-> EmptyDict]
    /\ pc = "read_csv"
    /\ pair \in 1..Len(Pairs)
    /\ InitLocals

NextEval ==
    \/ EvalReadCsv
    \/ CollaboratorRaises
    \/ GetLtlaPopulations
    \/ ForAreaName
    \/ PercentageChangesReturn
    \/ GetAreasAboveThresholds

SpecEval == InitEval /\ [][NextEval]_vars

(***************************************************************************)
(* Properties.                                                             *)
(***************************************************************************)
\* The result of the last get_percentage_change call, when there is one.
HasStats == Len(percentage_change_stats) = 1
Stats == percentage_change_stats[1]
Prior == Stats.aggregation_output_week_before
Latest == Stats.aggregation_output_last_week

\* C1: the percentage change of every pair of window aggregates is 0 when both
\* are zero, +infinity when only the prior one is zero, and otherwise
\* ((current - prior) / prior) * 100, stated here as current/prior - 1 = change/100.
C1_PercentageChange ==
    HasStats =>
        /\ (IsZero(Prior) /\ IsZero(Latest)) => Stats.percentage_change = FInt(0)
        /\ (IsZero(Prior) /\ ~IsZero(Latest)) => Stats.percentage_change = Inf
        /\ ~IsZero(Prior) =>
               FDiv(Stats.percentage_change, FInt(100))
                   = FSub(FDiv(Latest, Prior), FInt(1))

\* An area whose aggregates rose from a nonzero prior value.
C1_Witness ==
    /\ HasStats
    /\ IsNum(Prior) /\ Prior.n > 0
    /\ IsNum(Latest) /\ FGt(Latest, Prior)
    /\ IsNum(Stats.percentage_change) /\ Stats.percentage_change.n > 0

\* The rows of an area whose date lies in lo..hi.
RowsOf(area, lo, hi) ==
    SelectSeq(metric_df, LAMBDA r : r.areaName = area /\ r.date \in lo..hi)

\* The same for the area being evaluated.
RowsIn(lo, hi) == RowsOf(area_name, lo, hi)

LatestDate ==
    CHOOSE m \in {metric_df[i].date : i \in 1..Len(metric_df)} :
        \A i \in 1..Len(metric_df) : m >= metric_df[i].date

Returned == pc = "return_get_areas_above_thresholds"
IsCaseCount == metric_name = "newCasesBySpecimenDate"
Kept(row) == \E j \in 1..Len(df.rows) : df.rows[j] = row
Exceeds(x, t) == x.k = "inf" \/ (x.k = "num" /\ x.n > t * x.d)
AtLeast(x, y) == x.k = "inf" \/ (x.k = "num" /\ y.k = "num" /\ x.n * y.d >= y.n * x.d)

\* A row of the evaluation passes both criteria of its metric type.
Qualifies(row) ==
    /\ Exceeds(row[4], 50)
    /\ IF IsCaseCount THEN Exceeds(row[5], 50) ELSE Exceeds(row[3], 30)

\* C3: the result of get_areas_above_thresholds holds rows of the input only,
\* each once; every kept row has percentage_change > 50 and passes the criterion
\* of its metric type (per-100000 rate > 50, or current aggregate > 30); every
\* input row passing both is kept; the rows are in descending order of
\* percentage_change; with no qualifying row the result is empty and nothing is
\* raised.
C3_ThresholdFilter ==
    Returned =>
        /\ exception = "none"
        /\ \A j \in 1..Len(df.rows) : \E i \in 1..Len(ret) : ret[i] = df.rows[j]
        /\ \A j, k \in 1..Len(df.rows) : j # k => df.rows[j] # df.rows[k]
        /\ \A j \in 1..Len(df.rows) : Qualifies(df.rows[j])
        /\ \A i \in 1..Len(ret) : Qualifies(ret[i]) => Kept(ret[i])
        /\ \A j, k \in 1..Len(df.rows) :
               j < k => AtLeast(df.rows[j][4], df.rows[k][4])
        /\ (\A i \in 1..Len(ret) : ~Qualifies(ret[i])) => df.rows = << >>

\* Two areas are kept and the sort exchanged them; a third kind of state, with a
\* dropped row, is C9_Witness.
C3_Witness ==
    /\ Returned
    /\ Len(ret) = 2 /\ Len(df.rows) = 2
    /\ df.rows[1] = ret[2] /\ df.rows[2] = ret[1]
    /\ ret[1][4] # ret[2][4]

\* The area codes of an area's rows.
CodesOf(area) ==
    {metric_df[k].areaCode : k \in {n \in 1..Len(metric_df) : metric_df[n].areaName = area}}

NoPopulation(area) == CodesOf(area) \cap DOMAIN populations_df = {}

\* C9: for the case-count metric, an area whose area code is not in the
\* population table gets a null per-100000 rate, the loop goes on (the only
\* exception of the loop is the ambiguous area code), and the area is not in the
\* threshold result whatever its percentage_change.
C9_MissingPopulation ==
    IsCaseCount =>
        /\ \A i \in 1..Len(ret) : NoPopulation(ret[i][1]) => ret[i][5] = None
        /\ Returned =>
               \A i \in 1..Len(ret) : NoPopulation(ret[i][1]) => ~Kept(ret[i])
        /\ (pc = "raised" /\ exception \notin {"read_csv", "get_ltla_populations"}) =>
               \/ exception = "UnboundLocalError" /\ metric_df = << >>
               \/ exception = "area_code_for_area" /\ Cardinality(CodesOf(area_name)) > 1

\* An area without population entry and with a percentage_change of +infinity was
\* evaluated and dropped, and an area evaluated after it was kept.
C9_Witness ==
    /\ Returned
    /\ IsCaseCount
    /\ Len(ret) = 2
    /\ NoPopulation(ret[1][1]) /\ ret[1][5] = None /\ ret[1][4] = Inf
    /\ ~Kept(ret[1])
    /\ Kept(ret[2])

\* The upper bound of the windows of the series being evaluated.
WindowUpperBound == IF EMAIL_TYPE = "UNVERIFIED" THEN LatestDate ELSE LatestDate - 4

NoPriorRows(area) == Len(RowsOf(area, WindowUpperBound - 13, WindowUpperBound - 7)) = 0
NoCurrentRows(area) == Len(RowsOf(area, WindowUpperBound - 6, WindowUpperBound)) = 0

\* C6: for sum and for mean, an area without rows in the prior window, or without
\* rows in the current window, has an undefined aggregate for that window (no
\* value, not zero) and an undefined percentage change, and is not in the
\* threshold result.
C6_UndefinedAggregate ==
    Returned =>
        \A i \in 1..Len(ret) :
            /\ NoPriorRows(ret[i][1]) => ret[i][2] = NaN
            /\ NoCurrentRows(ret[i][1]) => ret[i][3] = NaN
            /\ (NoPriorRows(ret[i][1]) \/ NoCurrentRows(ret[i][1])) =>
                   /\ ret[i][4] = NaN
                   /\ ~Kept(ret[i])

\* The unrounded values of an evaluated area.
Unrounded(area) ==
    get_percentage_change(area, metric_name, metric_df, aggregation_function, EMAIL_TYPE)

UnroundedRate(area) ==
    get_cases_per_100000(Unrounded(area).aggregation_output_last_week,
                         populations_df, metric_df, area)

\* C7: the thresholds are compared with the unrounded values: an area is in the
\* threshold result exactly when its unrounded percentage change is above 50 and
\* its unrounded per-100000 rate is above 50 (hospital metric: its current
\* aggregate is above 30).
C7_UnroundedComparison ==
    Returned =>
        \A i \in 1..Len(ret) :
            Kept(ret[i]) <=>
                /\ Exceeds(Unrounded(ret[i][1]).percentage_change, 50)
                /\ IF IsCaseCount
                   THEN Exceeds(UnroundedRate(ret[i][1]), 50)
                   ELSE Exceeds(Unrounded(ret[i][1]).aggregation_output_last_week, 30)

(***************************************************************************)
(* Properties of the run.                                                  *)
(***************************************************************************)
Made(c) == \E i \in 1..Len(calls) : calls[i] = c
MadeBefore(c, j) == \E i \in 1..(j - 1) : calls[i] = c
BaselineWritten == Made(Call("put_object", "", TRUE))

\* NotifyNewMetrics has acted and the baseline has not been written since.
DiffDone ==
    \/ pc = "save_metric_definitions"
    \/ pc = "raised" /\ exception = "send_notification_email" /\ ~BaselineWritten

\* C4: the reported identifiers are current - previous, previous being the
\* persisted baseline, or empty when reading it failed, which does not end the
\* run; an alert is dispatched exactly when that set is not empty, and lists it.
C4_DefinitionDiff ==
    /\ DiffDone =>
           LET baseline == IF Made(Call("get_object", "", TRUE))
                           THEN DOMAIN s3_object.body ELSE {}
               added == DOMAIN current \ baseline
           IN  IF added = {} THEN alerts = << >>
               ELSE /\ Len(alerts) = 1
                    /\ alerts[1].body.new_metrics_list = added
                    /\ Len(NOTIFY_EMAILS) # 0 =>
                           Made(Call("send_email", "New metrics available:", TRUE))
                           \/ pc = "raised"
    /\ (calls # << >> /\ calls[Len(calls)] = Call("get_object", "", FALSE)) =>
           /\ pc \in {"new_metric_names", "save_metric_definitions"}
           /\ exception = "none"
           /\ previous = EmptyDict

\* The baseline holds m1, the current definitions hold m1 and m2, and the alert
\* lists m2.
C4_Witness ==
    /\ pc = "save_metric_definitions"
    /\ DOMAIN s3_object.body = {"m1"}
    /\ DOMAIN current = {"m1", "m2"}
    /\ Len(alerts) = 1
    /\ alerts[1].body.new_metrics_list = {"m2"}

RunEnded == pc \in {"done", "raised"}

\* C5: at the end of every run the persisted baseline is the freshly fetched
\* current definition set, whatever became of the alert and whatever the
\* threshold pipeline found.  (Runs that fetched no definitions, or whose write
\* to the store itself failed, are left out.)
C5_BaselinePersisted ==
    (/\ RunEnded
     /\ Made(Call("get_current_metric_definitions", "", TRUE))
     /\ exception # "save_metric_definitions") =>
        s3_object = [exists |-> TRUE, body |-> current]

EvaluationRaised ==
    /\ pc = "raised"
    /\ exception \in {"read_csv", "get_ltla_populations", "area_code_for_area",
                      "UnboundLocalError"}

\* C8: when the evaluation of one pair fails (a failed download, an empty series,
\* an ambiguous area code), the other configured pair is still evaluated in the
\* same run, and its areas above the thresholds are still alerted.
C8_PairsIndependent ==
    /\ (EvaluationRaised /\ pair = 1) => Made(Call("read_csv", "nhsTrust", TRUE))
    /\ (EvaluationRaised /\ pair = 2 /\ Len(to_alert) > 0) =>
           Made(Call("send_notification_email",
                     "Some metrics have exceeded the change threshold week on week:",
                     TRUE))

\* The place of a collaborator call in a run.
Stage(c) ==
    CASE c.call = "get_current_metric_definitions" -> 1
      [] c.call = "get_object" -> 2
      [] c.call \in {"send_notification_email", "send_email"}
             /\ c.arg = "New metrics available:" -> 3
      [] c.call \in {"put_object", "save_metric_definitions"} -> 4
      [] c.call \in {"read_csv", "get_ltla_populations"} /\ c.arg = "ltla" -> 5
      [] c.call \in {"read_csv", "get_ltla_populations"} /\ c.arg = "nhsTrust" -> 6
      [] OTHER -> 7

IsDispatch(c) == c.call = "send_notification_email"

\* C10 as claimed: no alert at all is dispatched before the baseline has been
\* persisted, and no series is fetched before it.
C10_NoAlertBeforePersist ==
    \A j \in 1..Len(calls) :
        (IsDispatch(calls[j]) \/ Stage(calls[j]) \in {5, 6}) =>
            MadeBefore(Call("put_object", "", TRUE), j)

\* C10, amended: the calls of a run are made in the order definition fetch,
\* baseline read, alert on new definitions, baseline write, evaluation of the
\* ltla pair, evaluation of the nhsTrust pair, alert on thresholds; no series is
\* fetched and no threshold alert is dispatched before the baseline has been
\* written; the alert on new definitions is dispatched before it.
C10_RunOrder ==
    /\ \A i, j \in 1..Len(calls) : i < j => Stage(calls[i]) <= Stage(calls[j])
    /\ \A j \in 1..Len(calls) :
           /\ Stage(calls[j]) >= 5 => MadeBefore(Call("put_object", "", TRUE), j)
           /\ Stage(calls[j]) = 7 => MadeBefore(Call("read_csv", "nhsTrust", TRUE), j)
           /\ Stage(calls[j]) = 3 =>
                  /\ ~MadeBefore(Call("put_object", "", TRUE), j)
                  /\ \E i \in 1..(j - 1) : calls[i].call = "get_object"
           /\ Stage(calls[j]) = 2 =>
                  MadeBefore(Call("get_current_metric_definitions", "", TRUE), j)

\* A finished run that dispatched both alerts.
C10_Witness ==
    /\ pc = "done"
    /\ Len(alerts) = 2
    /\ Len(ses_sent) = 2
    /\ BaselineWritten

====
